---- MODULE Spec2Model ----
(***************************************************************************)
(* TV locker backend: device registration against an EMI schedule,         *)
(* activation codes, lock dates, remote lock and unlock.                   *)
(*                                                                         *)
(* The store is the four tables of schema.sql.  Every HTTP handler is a    *)
(* process that executes its SQL statements one at a time (each statement  *)
(* commits on its own: the handlers open no transaction), so requests      *)
(* interleave at statement granularity and every statement may fail.       *)
(* Two entry points serve the same store: the serverless Handler and the   *)
(* stand-alone server of main.go; they differ in /api/check.               *)
(***************************************************************************)
EXTENDS Integers, Sequences, FiniteSets, TLC

VARIABLES devices, activation_codes, lock_dates, remote_locks, req, nreq,
          nfail, serving, calc, dbInitError, lockWritten, prevCheck,
          prevUnlock

vars ==
    <<devices, activation_codes, lock_dates, remote_locks, req, nreq, nfail,
      serving, calc, dbInitError, lockWritten, prevCheck, prevUnlock>>

store == <<devices, activation_codes, lock_dates, remote_locks>>

----------------------------------------------------------------------------
(* Bounds of the model *)

\* largest emi_term a register request carries
MaxTerm == 2

\* requests started in one behaviour when requests are served concurrently
MaxRequests == 3

\* requests started in one behaviour when they are served one after the other
MaxSeqRequests == 4

\* statements the store fails in one behaviour
MaxFailures == 1

\* largest emi_term handed to calculateLockDates on its own
MaxCalcTerm == 4

\* request slots served concurrently
Procs == {"p1", "p2"}

Slot(p) == IF p = "p1" THEN 1 ELSE 2

Serials == {"TV1", "TV2"}

\* values uuid.New().String()[:8] may return, in the order of first use
CodeSeq == <<"c1", "c2", "c3">>

Codes == {CodeSeq[n] : n \in DOMAIN CodeSeq}

\* emi_term is a Go int taken from the JSON body without validation
EmiTerms == (0 - 1) .. MaxTerm

\* term_duration of the register requests the store sees
TermDurations == {15}

\* term_duration values handed to the validation and to calculateLockDates
\* on their own
CalcTermDurations == {7, 15, 30, 10, 0}

\* emi_start_date strings "YYYY-MM-DD" as <<year, month, day>>
StartDates == {<<2024, 1, 1>>}

\* bodies of POST /api/register: every combination of the values above, one
\* body with a term_duration that is not allowed and one whose
\* emi_start_date does not parse (February 30)
RegisterRequests ==
    [serial_number : Serials, emi_term : EmiTerms,
     emi_start_date : StartDates, term_duration : TermDurations]
    \cup {[serial_number |-> "TV1", emi_term |-> 1,
            emi_start_date |-> <<2024, 1, 1>>, term_duration |-> 10],
           [serial_number |-> "TV1", emi_term |-> 1,
            emi_start_date |-> <<2024, 2, 30>>, term_duration |-> 15]}

\* emi_start_date strings handed to calculateLockDates on its own
CalcStartDates ==
    {<<2024, 1, 1>>, <<2024, 2, 20>>, <<2023, 2, 20>>, <<2023, 12, 25>>,
     <<2100, 2, 1>>, <<2000, 2, 1>>, <<2023, 2, 29>>, <<2024, 13, 1>>}

----------------------------------------------------------------------------
(* HTTP status codes used by the handlers *)

StatusOK == 200
StatusBadRequest == 400
StatusForbidden == 403
StatusNotFound == 404
StatusConflict == 409
StatusInternalServerError == 500

----------------------------------------------------------------------------
(* Calendar dates.  A time.Time at UTC midnight is its day number since    *)
(* 1970-01-01; the date strings of requests and responses are civil        *)
(* triples <<year, month, day>>.                                           *)

IsLeap(y) == (y % 4 = 0 /\ y % 100 # 0) \/ y % 400 = 0

DaysIn(y, m) ==
    IF m = 2 THEN (IF IsLeap(y) THEN 29 ELSE 28)
    ELSE IF m \in {4, 6, 9, 11} THEN 30 ELSE 31

\* days since 1970-01-01 of a civil date
DaysFromCivil(y, m, d) ==
    LET yy  == IF m <= 2 THEN y - 1 ELSE y
        era == yy \div 400
        yoe == yy - era * 400
        mp  == IF m > 2 THEN m - 3 ELSE m + 9
        doy == (153 * mp + 2) \div 5 + d - 1
        doe == yoe * 365 + yoe \div 4 - yoe \div 100 + doy
    IN  era * 146097 + doe - 719468

\* civil date of a day number
CivilFromDays(z) ==
    LET zz  == z + 719468
        era == zz \div 146097
        doe == zz - era * 146097
        yoe == (doe - doe \div 1460 + doe \div 36524 - doe \div 146096) \div 365
        doy == doe - (365 * yoe + yoe \div 4 - yoe \div 100)
        mp  == (5 * doy + 2) \div 153
        d   == doy - (153 * mp + 2) \div 5 + 1
        m   == IF mp < 10 THEN mp + 3 ELSE mp - 9
        y   == yoe + era * 400 + (IF m <= 2 THEN 1 ELSE 0)
    IN  <<y, m, d>>

\* time.Parse("2006-01-02", s): err != nil
ParseFails(s) ==
    ~ (/\ s[2] \in 1..12
       /\ s[3] \in 1..DaysIn(s[1], s[2]))

\* time.Parse("2006-01-02", s): the parsed time
Parse(s) == DaysFromCivil(s[1], s[2], s[3])

\* t.Format("2006-01-02")
Format(t) == CivilFromDays(t)

\* t.AddDate(0, 0, days): the day field is increased and the date normalised
AddDate(t, days) ==
    LET c == CivilFromDays(t)
    IN  DaysFromCivil(c[1], c[2], 1) + (c[3] - 1) + days

\* the loop of calculateLockDates: i iterations done, currentDate carried
RECURSIVE LockDatesLoop(_, _, _, _, _)
LockDatesLoop(currentDate, termDuration, emiTerm, i, lockDates) ==
    IF i < emiTerm
    THEN LET lockDate == AddDate(currentDate, termDuration)
         IN  LockDatesLoop(lockDate, termDuration, emiTerm, i + 1,
                           Append(lockDates, lockDate))
    ELSE lockDates

\* calculateLockDates without "currentDate = lockDate": every lock date is
\* one term after the start date
calculateLockDates_NoCarry(startDate, termDuration, emiTerm) ==
    [k \in 1..emiTerm |-> AddDate(startDate, termDuration)]

calculateLockDates(startDate, termDuration, emiTerm) ==
    LockDatesLoop(startDate, termDuration, emiTerm, 0, <<>>)

----------------------------------------------------------------------------
(* The store: one sequence per table, in insertion order.  A row's id (a  *)
(* fresh uuid in the code) is its position in the table.                   *)

\* a devices table without the UNIQUE constraint on serial_number
DevicesSerialUnique_Dropped(row) == row.serial_number = row.serial_number

\* devices.serial_number UNIQUE
DevicesSerialUnique(row) ==
    \A id \in DOMAIN devices : devices[id].serial_number # row.serial_number

\* devices.term_duration CHECK (term_duration IN (7, 15, 30))
DevicesTermDurationCheck(row) == row.term_duration \in {7, 15, 30}

\* an activation_codes table without the UNIQUE constraint on code
ActivationCodesCodeUnique_Dropped(row) == row.code = row.code

\* activation_codes.code UNIQUE
ActivationCodesCodeUnique(row) ==
    \A id \in DOMAIN activation_codes : activation_codes[id].code # row.code

\* activation_codes UNIQUE(device_id, term_number)
ActivationCodesTermUnique(row) ==
    \A id \in DOMAIN activation_codes :
        ~ (/\ activation_codes[id].device_id = row.device_id
           /\ activation_codes[id].term_number = row.term_number)

\* remote_locks.device_id UNIQUE
RemoteLocksDeviceUnique(row) ==
    \A id \in DOMAIN remote_locks : remote_locks[id].device_id # row.device_id

\* SELECT id FROM devices WHERE serial_number = $1
DeviceIdsBySerial(serial) ==
    {id \in DOMAIN devices : devices[id].serial_number = serial}

\* SELECT ... FROM activation_codes ac WHERE ac.code = $1 AND ac.is_used = false
UnusedCodeIds(code) ==
    {id \in DOMAIN activation_codes :
        /\ activation_codes[id].code = code
        /\ activation_codes[id].is_used = FALSE}

\* SELECT is_locked FROM remote_locks WHERE device_id = $1
RemoteLockIds(deviceID) ==
    {id \in DOMAIN remote_locks : remote_locks[id].device_id = deviceID}

\* QueryRow(...).Scan: the first row of the result
FirstRow(ids) == CHOOSE id \in ids : \A other \in ids : id <= other

\* ascending sequence of a finite set of integers (ORDER BY on distinct keys)
RECURSIVE SortedSeq(_)
SortedSeq(S) ==
    IF S = {} THEN <<>>
    ELSE LET m == CHOOSE x \in S : \A y \in S : x <= y
         IN  <<m>> \o SortedSeq(S \ {m})

----------------------------------------------------------------------------
(* Requests.  req[p] is the handler running in slot p: its request body,   *)
(* its local variables, the statement it executes next (pc) and, once it   *)
(* has answered (pc = "done"), its response.                               *)

NoReq ==
    [op |-> "none", pc |-> "idle",
     serial_number |-> "", activation_code |-> "", is_locked |-> FALSE,
     emi_term |-> 0, emi_start_date |-> <<>>, term_duration |-> 0,
     deviceID |-> 0, activationCodeID |-> 0, isActive |-> FALSE,
     i |-> 0, lockDates |-> <<>>, code |-> "", codeRows |-> <<>>,
     terms |-> <<>>, status |-> 0, isLocked |-> FALSE]

\* the handler writes its response and returns; locals go out of scope
Finish(r, status) ==
    [r EXCEPT !.pc = "done", !.status = status, !.i = 0, !.lockDates = <<>>,
              !.code = "", !.codeRows = <<>>, !.activationCodeID = 0,
              !.isActive = FALSE]

InFlight(p) == req[p].pc \notin {"idle", "done"}

\* no check response
NoCheck == [op |-> "none", serial_number |-> "", status |-> 0, terms |-> <<>>]

\* what a client keeps of the response r when r answered a check
CheckOf(r) ==
    IF r.pc = "done" /\ r.op \in {"check", "check_main"}
    THEN [op |-> r.op, serial_number |-> r.serial_number, status |-> r.status,
          terms |-> r.terms]
    ELSE NoCheck

\* the serial number r unlocked when r answered an unlock with success
UnlockOf(r) ==
    IF r.pc = "done" /\ r.op = "unlock" /\ r.status = StatusOK
    THEN r.serial_number
    ELSE ""

NoneInFlight == \A p \in Procs : ~ InFlight(p)

\* a request arrives and is served on the first free slot; a server that
\* serves one request at a time takes it when the previous one has answered
Accept(p) ==
    /\ ~ InFlight(p)
    /\ \A q \in Procs : ~ InFlight(q) => Slot(p) <= Slot(q)
    /\ IF serving = "sequential"
       THEN NoneInFlight /\ nreq < MaxSeqRequests
       ELSE nreq < MaxRequests
    /\ nreq' = nreq + 1
    /\ prevCheck' = CheckOf(req[p])
    /\ prevUnlock' = UnlockOf(req[p])

\* initDB of the serverless Handler: dbOnce runs the connection attempt on the
\* first request, later requests return the recorded dbInitError; this is the
\* branch where it is nil
initDB ==
    /\ dbInitError \in {"pending", "nil"}
    /\ dbInitError' = "nil"

\* a request arrives at the Handler, initDB returns nil and the router
\* dispatches it
Route(p) == Accept(p) /\ initDB

\* req after slot p took the step to r: the responses of requests that had
\* answered before a new request arrived are delivered and leave their slots
Started(p, r) ==
    [q \in Procs |->
        IF q = p THEN r
        ELSE IF req[q].pc = "done" THEN NoReq
        ELSE req[q]]

At(p, op, pc) == req[p].op = op /\ req[p].pc = pc

\* outcomes of the driver for one statement: it runs (FALSE), or the store
\* fails and the driver returns an error (TRUE)
StoreErr == IF nfail < MaxFailures THEN BOOLEAN ELSE {FALSE}

Count(err) == nfail' = IF err THEN nfail + 1 ELSE nfail

----------------------------------------------------------------------------
(* POST /api/register *)

\* a validation that only asks for a positive term duration
ValidTermDuration_Positive(termDuration) == termDuration > 0

ValidTermDuration(termDuration) ==
    ~ (termDuration # 7 /\ termDuration # 15 /\ termDuration # 30)

\* the loop test with < written for <=: the last term is skipped
LoopContinues_OffByOne(i, emiTerm) == i < emiTerm

\* the test of "for i := 1; i <= req.EMITerm; i++"
LoopContinues(i, emiTerm) == i <= emiTerm

\* a registration that skips "Check if device already exists"
registerDevice_SelectExisting_NoLookup(p) ==
    \E body \in RegisterRequests, err \in StoreErr :
        /\ Count(err)
        /\ Route(p)
        /\ LET r == [NoReq EXCEPT !.op = "register",
                                  !.serial_number = body.serial_number,
                                  !.emi_term = body.emi_term,
                                  !.emi_start_date = body.emi_start_date,
                                  !.term_duration = body.term_duration]
           IN  req' = Started(p,
                   IF ~ ValidTermDuration(body.term_duration)
                   THEN Finish(r, StatusBadRequest)
                   ELSE IF ParseFails(body.emi_start_date)
                   THEN Finish(r, StatusBadRequest)
                   ELSE [r EXCEPT !.pc = "r_insert_device"])
        /\ UNCHANGED <<store, serving, calc, lockWritten>>

\* decode the body, validate term_duration, parse emi_start_date, then
\* "Check if device already exists": Conflict only when the query returns a row
registerDevice_SelectExisting(p) ==
    \E body \in RegisterRequests, err \in StoreErr :
        /\ Count(err)
        /\ Route(p)
        /\ LET r == [NoReq EXCEPT !.op = "register",
                                  !.serial_number = body.serial_number,
                                  !.emi_term = body.emi_term,
                                  !.emi_start_date = body.emi_start_date,
                                  !.term_duration = body.term_duration]
           IN  req' = Started(p,
                   IF ~ ValidTermDuration(body.term_duration)
                   THEN Finish(r, StatusBadRequest)
                   ELSE IF ParseFails(body.emi_start_date)
                   THEN Finish(r, StatusBadRequest)
                   ELSE IF ~ err /\ DeviceIdsBySerial(body.serial_number) # {}
                   THEN Finish(r, StatusConflict)
                   ELSE [r EXCEPT !.pc = "r_insert_device"])
        /\ UNCHANGED <<store, serving, calc, lockWritten>>

\* "Insert device", then calculateLockDates and the loop's first test
registerDevice_InsertDevice(p) ==
    /\ At(p, "register", "r_insert_device")
    /\ LET r   == req[p]
           row == [serial_number |-> r.serial_number, emi_term |-> r.emi_term,
                   emi_start_date |-> Parse(r.emi_start_date),
                   term_duration |-> r.term_duration,
                   is_active |-> FALSE, is_locked |-> FALSE]
       IN  \E err \in StoreErr :
        /\ Count(err)
        /\ IF err \/ ~ DevicesSerialUnique(row)
                  \/ ~ DevicesTermDurationCheck(row)
           THEN /\ req' = [req EXCEPT ![p] = Finish(@, StatusInternalServerError)]
                /\ UNCHANGED devices
           ELSE /\ devices' = Append(devices, row)
                /\ req' = [req EXCEPT ![p] =
                       [@ EXCEPT !.deviceID = Len(devices) + 1,
                                 !.lockDates = calculateLockDates(
                                     Parse(r.emi_start_date), r.term_duration,
                                     r.emi_term),
                                 !.i = 1,
                                 !.pc = IF LoopContinues(1, r.emi_term)
                                        THEN "r_insert_code"
                                        ELSE "r_insert_remote_lock"]]
    /\ UNCHANGED <<activation_codes, lock_dates, remote_locks, nreq, serving, calc,
                   dbInitError, lockWritten, prevCheck, prevUnlock>>

\* generateActivationCode: the first 8 characters of a fresh uuid.  They are
\* either a value some stored row already carries (a collision) or a value
\* not stored yet; values not stored yet differ by name only, and the first
\* of CodeSeq stands for them.
generateActivationCode ==
    LET stored == {activation_codes[id].code : id \in DOMAIN activation_codes}
        fresh  == {n \in DOMAIN CodeSeq : CodeSeq[n] \notin stored}
    IN  stored \cup {CodeSeq[n] : n \in {m \in fresh : \A k \in fresh : m <= k}}

\* one pass of the loop: generateActivationCode and the INSERT INTO
\* activation_codes of term i
registerDevice_InsertCode(p) ==
    /\ At(p, "register", "r_insert_code")
    /\ \E err \in StoreErr, code \in generateActivationCode :
        /\ Count(err)
        /\ LET r   == req[p]
               row == [device_id |-> r.deviceID, code |-> code,
                       term_number |-> r.i, is_used |-> FALSE, used_at |-> "NULL"]
           IN  IF err \/ ~ ActivationCodesCodeUnique(row)
                      \/ ~ ActivationCodesTermUnique(row)
               THEN /\ req' = [req EXCEPT ![p] = Finish(@, StatusInternalServerError)]
                    /\ UNCHANGED activation_codes
               ELSE /\ activation_codes' = Append(activation_codes, row)
                    /\ req' = [req EXCEPT ![p] =
                           [@ EXCEPT !.code = code, !.pc = "r_insert_lock_date"]]
    /\ UNCHANGED <<devices, lock_dates, remote_locks, nreq, serving, calc,
                   dbInitError, lockWritten, prevCheck, prevUnlock>>

\* the INSERT INTO lock_dates of term i, the append to termsWithDates, i++
registerDevice_InsertLockDate(p) ==
    /\ At(p, "register", "r_insert_lock_date")
    /\ \E err \in StoreErr :
        /\ Count(err)
        /\ LET r        == req[p]
               lockDate == r.lockDates[r.i]
           IN  IF err
               THEN /\ req' = [req EXCEPT ![p] = Finish(@, StatusInternalServerError)]
                    /\ UNCHANGED lock_dates
               ELSE /\ lock_dates' = Append(lock_dates,
                           [device_id |-> r.deviceID, lock_date |-> lockDate,
                            is_locked |-> FALSE])
                    /\ req' = [req EXCEPT ![p] =
                           [@ EXCEPT !.terms = Append(@,
                                         [term |-> r.i, lock_date |-> Format(lockDate),
                                          activation_code |-> r.code]),
                                     !.i = r.i + 1,
                                     !.code = "",
                                     !.pc = IF LoopContinues(r.i + 1, r.emi_term)
                                            THEN "r_insert_code"
                                            ELSE "r_insert_remote_lock"]]
    /\ UNCHANGED <<devices, activation_codes, remote_locks, nreq, serving, calc,
                   dbInitError, lockWritten, prevCheck, prevUnlock>>

\* "Create initial remote lock entry": an error is logged, the answer is success
registerDevice_InsertRemoteLock(p) ==
    /\ At(p, "register", "r_insert_remote_lock")
    /\ \E err \in StoreErr :
        /\ Count(err)
        /\ LET row == [device_id |-> req[p].deviceID, is_locked |-> FALSE]
           IN  /\ remote_locks' = IF err \/ ~ RemoteLocksDeviceUnique(row)
                                  THEN remote_locks
                                  ELSE Append(remote_locks, row)
               /\ req' = [req EXCEPT ![p] = Finish(@, StatusOK)]
    /\ lockWritten' = [lockWritten EXCEPT ![req[p].serial_number] = {FALSE}]
    /\ UNCHANGED <<devices, activation_codes, lock_dates, nreq, serving, calc,
                   dbInitError, prevCheck, prevUnlock>>

registerDevice(p) ==
    \/ registerDevice_SelectExisting(p)
    \/ registerDevice_InsertDevice(p)
    \/ registerDevice_InsertCode(p)
    \/ registerDevice_InsertLockDate(p)
    \/ registerDevice_InsertRemoteLock(p)

----------------------------------------------------------------------------
(* The terms of a response: activation codes and lock dates of a device,   *)
(* paired by position.                                                     *)

CodeIdsOf(deviceID) ==
    {id \in DOMAIN activation_codes : activation_codes[id].device_id = deviceID}

LockDateIdsOf(deviceID) ==
    {id \in DOMAIN lock_dates : lock_dates[id].device_id = deviceID}

\* SELECT term_number, code FROM activation_codes WHERE device_id = $1
\* ORDER BY term_number, scanned into codesByTerm
CodesByTerm(deviceID) ==
    LET ids == CodeIdsOf(deviceID)
    IN  [t \in {activation_codes[id].term_number : id \in ids} |->
            activation_codes[CHOOSE id \in ids :
                /\ activation_codes[id].term_number = t
                /\ \A other \in ids :
                    activation_codes[other].term_number = t => other <= id].code]

\* SELECT term_number FROM activation_codes WHERE device_id = $1
\* ORDER BY term_number (main.go)
TermNumbersOf(deviceID) ==
    SortedSeq({activation_codes[id].term_number : id \in CodeIdsOf(deviceID)})

\* rows of lock_dates in ascending lock_date order
RECURSIVE OrderByLockDate(_)
OrderByLockDate(ids) ==
    IF ids = {} THEN <<>>
    ELSE LET first == CHOOSE id \in ids : \A other \in ids :
                          \/ lock_dates[id].lock_date < lock_dates[other].lock_date
                          \/ /\ lock_dates[id].lock_date = lock_dates[other].lock_date
                             /\ id <= other
         IN  <<lock_dates[first].lock_date>> \o OrderByLockDate(ids \ {first})

\* SELECT lock_date FROM lock_dates WHERE device_id = $1 ORDER BY lock_date
LockDatesOf(deviceID) == OrderByLockDate(LockDateIdsOf(deviceID))

\* "Match lock dates with terms and activation codes by index"
MatchTerms(codesByTerm, lockDates) ==
    LET termNumbers == SortedSeq(DOMAIN codesByTerm)
        n == IF Len(lockDates) < Len(termNumbers)
             THEN Len(lockDates) ELSE Len(termNumbers)
    IN  [termIndex \in 1..n |->
            [term |-> termNumbers[termIndex],
             lock_date |-> Format(lockDates[termIndex]),
             activation_code |-> codesByTerm[termNumbers[termIndex]]]]

\* main.go: "Match terms with lock dates by index" (no activation code)
MatchTermsMain(termNumbers, lockDates) ==
    LET n == IF Len(lockDates) < Len(termNumbers)
             THEN Len(lockDates) ELSE Len(termNumbers)
    IN  [termIndex \in 1..n |->
            [term |-> termNumbers[termIndex],
             lock_date |-> Format(lockDates[termIndex]),
             activation_code |-> ""]]

\* the two queries that build the terms of activate and check
QueryCodes(p, next) ==
    /\ \E err \in StoreErr :
        /\ Count(err)
        /\ req' = [req EXCEPT ![p] =
               IF err THEN Finish(@, StatusOK)
               ELSE [@ EXCEPT !.codeRows = CodesByTerm(req[p].deviceID),
                              !.pc = next]]
    /\ UNCHANGED <<store, nreq, serving, calc,
                   dbInitError, lockWritten, prevCheck, prevUnlock>>

QueryLockDates(p) ==
    /\ \E err \in StoreErr :
        /\ Count(err)
        /\ req' = [req EXCEPT ![p] =
               IF err THEN Finish(@, StatusOK)
               ELSE Finish([@ EXCEPT !.terms =
                       MatchTerms(req[p].codeRows, LockDatesOf(req[p].deviceID))],
                    StatusOK)]
    /\ UNCHANGED <<store, nreq, serving, calc,
                   dbInitError, lockWritten, prevCheck, prevUnlock>>

----------------------------------------------------------------------------
(* POST /api/activate *)

\* "Find device by activation code"
activateDevice_SelectCode(p) ==
    \E code \in Codes, err \in StoreErr :
        /\ Count(err)
        /\ Route(p)
        /\ LET r   == [NoReq EXCEPT !.op = "activate", !.activation_code = code]
               ids == UnusedCodeIds(code)
           IN  req' = Started(p,
                   IF err \/ ids = {} THEN Finish(r, StatusBadRequest)
                   ELSE [r EXCEPT !.activationCodeID = FirstRow(ids),
                                  !.deviceID =
                                      activation_codes[FirstRow(ids)].device_id,
                                  !.pc = "a_mark_used"])
        /\ UNCHANGED <<store, serving, calc, lockWritten>>

\* UPDATE activation_codes SET is_used = true, used_at = $1 WHERE id = $2
MarkUsed(activationCodeID) ==
    [activation_codes EXCEPT ![activationCodeID].is_used = TRUE,
                             ![activationCodeID].used_at = "now"]

\* "Mark activation code as used"
activateDevice_MarkUsed(p) ==
    /\ At(p, "activate", "a_mark_used")
    /\ \E err \in StoreErr :
        /\ Count(err)
        /\ IF err
           THEN /\ req' = [req EXCEPT ![p] = Finish(@, StatusInternalServerError)]
                /\ UNCHANGED activation_codes
           ELSE /\ activation_codes' = MarkUsed(req[p].activationCodeID)
                /\ req' = [req EXCEPT ![p].pc = "a_activate"]
    /\ UNCHANGED <<devices, lock_dates, remote_locks, nreq, serving, calc,
                   dbInitError, lockWritten, prevCheck, prevUnlock>>

\* an activation that also clears the device's lock flag
SetActive_Unlocks(deviceID) ==
    [devices EXCEPT ![deviceID].is_active = TRUE,
                    ![deviceID].is_locked = FALSE]

\* UPDATE devices SET is_active = true WHERE id = $1
SetActive(deviceID) == [devices EXCEPT ![deviceID].is_active = TRUE]

\* "Activate device if not already active": an error is only logged
activateDevice_ActivateDevice(p) ==
    /\ At(p, "activate", "a_activate")
    /\ \E err \in StoreErr :
        /\ Count(err)
        /\ devices' = IF err THEN devices ELSE SetActive(req[p].deviceID)
    /\ req' = [req EXCEPT ![p].pc = "a_query_codes"]
    /\ UNCHANGED <<activation_codes, lock_dates, remote_locks, nreq, serving, calc,
                   dbInitError, lockWritten, prevCheck, prevUnlock>>

activateDevice_QueryCodes(p) ==
    /\ At(p, "activate", "a_query_codes")
    /\ QueryCodes(p, "a_query_lock_dates")

activateDevice_QueryLockDates(p) ==
    /\ At(p, "activate", "a_query_lock_dates")
    /\ QueryLockDates(p)

activateDevice(p) ==
    \/ activateDevice_SelectCode(p)
    \/ activateDevice_MarkUsed(p)
    \/ activateDevice_ActivateDevice(p)
    \/ activateDevice_QueryCodes(p)
    \/ activateDevice_QueryLockDates(p)

----------------------------------------------------------------------------
(* GET /api/check of the serverless Handler: auto-activates *)

\* serial_number query parameters; "" is a missing parameter
QuerySerials == Serials \cup {""}

\* "Find device": SELECT id, is_active FROM devices WHERE serial_number = $1
checkActivation_SelectDevice(p) ==
    \E serial \in QuerySerials, err \in StoreErr :
        /\ Count(err)
        /\ Route(p)
        /\ LET r   == [NoReq EXCEPT !.op = "check", !.serial_number = serial]
               ids == DeviceIdsBySerial(serial)
           IN  req' = Started(p,
                   IF serial = "" THEN Finish(r, StatusBadRequest)
                   ELSE IF err \/ ids = {} THEN Finish(r, StatusNotFound)
                   ELSE [r EXCEPT !.deviceID = FirstRow(ids),
                                  !.isActive = devices[FirstRow(ids)].is_active,
                                  !.pc = IF ~ devices[FirstRow(ids)].is_active
                                         THEN "c_activate"
                                         ELSE "c_query_codes"])
        /\ UNCHANGED <<store, serving, calc, lockWritten>>

\* "Automatically activate the device when TV calls this endpoint"
checkActivation_Activate(p) ==
    /\ At(p, "check", "c_activate")
    /\ \E err \in StoreErr :
        /\ Count(err)
        /\ IF err
           THEN /\ req' = [req EXCEPT ![p] = Finish(@, StatusInternalServerError)]
                /\ UNCHANGED devices
           ELSE /\ devices' = SetActive(req[p].deviceID)
                /\ req' = [req EXCEPT ![p] =
                       [@ EXCEPT !.isActive = TRUE, !.pc = "c_query_codes"]]
    /\ UNCHANGED <<activation_codes, lock_dates, remote_locks, nreq, serving, calc,
                   dbInitError, lockWritten, prevCheck, prevUnlock>>

checkActivation_QueryCodes(p) ==
    /\ At(p, "check", "c_query_codes")
    /\ QueryCodes(p, "c_query_lock_dates")

checkActivation_QueryLockDates(p) ==
    /\ At(p, "check", "c_query_lock_dates")
    /\ QueryLockDates(p)

checkActivation(p) ==
    \/ checkActivation_SelectDevice(p)
    \/ checkActivation_Activate(p)
    \/ checkActivation_QueryCodes(p)
    \/ checkActivation_QueryLockDates(p)

----------------------------------------------------------------------------
(* GET /api/check of the stand-alone server (main.go): never writes *)

\* "Find device", then Forbidden when the device is not active
checkActivationMain_SelectDevice(p) ==
    \E serial \in QuerySerials, err \in StoreErr :
        /\ Count(err)
        /\ Accept(p)
        /\ LET r   == [NoReq EXCEPT !.op = "check_main", !.serial_number = serial]
               ids == DeviceIdsBySerial(serial)
           IN  req' = Started(p,
                   IF serial = "" THEN Finish(r, StatusBadRequest)
                   ELSE IF err \/ ids = {} THEN Finish(r, StatusNotFound)
                   ELSE IF ~ devices[FirstRow(ids)].is_active
                   THEN Finish([r EXCEPT !.deviceID = FirstRow(ids)],
                               StatusForbidden)
                   ELSE [r EXCEPT !.deviceID = FirstRow(ids),
                                  !.isActive = TRUE,
                                  !.pc = "m_query_terms"])
        /\ UNCHANGED <<store, serving, calc, dbInitError, lockWritten>>

checkActivationMain_QueryTerms(p) ==
    /\ At(p, "check_main", "m_query_terms")
    /\ \E err \in StoreErr :
        /\ Count(err)
        /\ req' = [req EXCEPT ![p] =
               IF err THEN Finish(@, StatusOK)
               ELSE [@ EXCEPT !.codeRows = TermNumbersOf(req[p].deviceID),
                              !.pc = "m_query_lock_dates"]]
    /\ UNCHANGED <<store, nreq, serving, calc,
                   dbInitError, lockWritten, prevCheck, prevUnlock>>

checkActivationMain_QueryLockDates(p) ==
    /\ At(p, "check_main", "m_query_lock_dates")
    /\ \E err \in StoreErr :
        /\ Count(err)
        /\ req' = [req EXCEPT ![p] =
               IF err THEN Finish(@, StatusOK)
               ELSE Finish([@ EXCEPT !.terms =
                       MatchTermsMain(req[p].codeRows, LockDatesOf(req[p].deviceID))],
                    StatusOK)]
    /\ UNCHANGED <<store, nreq, serving, calc,
                   dbInitError, lockWritten, prevCheck, prevUnlock>>

checkActivationMain(p) ==
    \/ checkActivationMain_SelectDevice(p)
    \/ checkActivationMain_QueryTerms(p)
    \/ checkActivationMain_QueryLockDates(p)

----------------------------------------------------------------------------
(* POST /api/remote-lock *)

setRemoteLock_SelectDevice(p) ==
    \E serial \in Serials, isLocked \in BOOLEAN, err \in StoreErr :
        /\ Count(err)
        /\ Route(p)
        /\ LET r   == [NoReq EXCEPT !.op = "remote-lock", !.serial_number = serial,
                                    !.is_locked = isLocked]
               ids == DeviceIdsBySerial(serial)
           IN  req' = Started(p,
                   IF err \/ ids = {} THEN Finish(r, StatusNotFound)
                   ELSE [r EXCEPT !.deviceID = FirstRow(ids),
                                  !.pc = "l_update_remote_lock"])
        /\ UNCHANGED <<store, serving, calc, lockWritten>>

\* an update of remote_locks that inserts the row when the device has none
UpdateRemoteLock_Upsert(deviceID, isLocked) ==
    IF \E id \in DOMAIN remote_locks : remote_locks[id].device_id = deviceID
    THEN [id \in DOMAIN remote_locks |->
             IF remote_locks[id].device_id = deviceID
             THEN [remote_locks[id] EXCEPT !.is_locked = isLocked]
             ELSE remote_locks[id]]
    ELSE Append(remote_locks, [device_id |-> deviceID, is_locked |-> isLocked])

\* UPDATE remote_locks SET is_locked = $1, updated_at = $2 WHERE device_id = $3
UpdateRemoteLock(deviceID, isLocked) ==
    [id \in DOMAIN remote_locks |->
        IF remote_locks[id].device_id = deviceID
        THEN [remote_locks[id] EXCEPT !.is_locked = isLocked]
        ELSE remote_locks[id]]

\* a lock update that also deactivates the device
UpdateDeviceLock_Deactivates(deviceID, isLocked) ==
    [devices EXCEPT ![deviceID].is_locked = isLocked,
                    ![deviceID].is_active = FALSE]

\* UPDATE devices SET is_locked = $1 WHERE id = $2
UpdateDeviceLock(deviceID, isLocked) ==
    [devices EXCEPT ![deviceID].is_locked = isLocked]

\* "Update remote lock"
setRemoteLock_UpdateRemoteLock(p) ==
    /\ At(p, "remote-lock", "l_update_remote_lock")
    /\ \E err \in StoreErr :
        /\ Count(err)
        /\ IF err
           THEN /\ req' = [req EXCEPT ![p] = Finish(@, StatusInternalServerError)]
                /\ UNCHANGED remote_locks
           ELSE /\ remote_locks' = UpdateRemoteLock(req[p].deviceID, req[p].is_locked)
                /\ req' = [req EXCEPT ![p].pc = "l_update_device"]
    /\ UNCHANGED <<devices, activation_codes, lock_dates, nreq, serving, calc,
                   dbInitError, lockWritten, prevCheck, prevUnlock>>

\* "Also update device lock status": an error is only logged
setRemoteLock_UpdateDevice(p) ==
    /\ At(p, "remote-lock", "l_update_device")
    /\ \E err \in StoreErr :
        /\ Count(err)
        /\ devices' = IF err THEN devices
                      ELSE UpdateDeviceLock(req[p].deviceID, req[p].is_locked)
    /\ req' = [req EXCEPT ![p] =
           Finish([@ EXCEPT !.isLocked = req[p].is_locked], StatusOK)]
    /\ lockWritten' = [lockWritten EXCEPT ![req[p].serial_number] =
                                          {req[p].is_locked}]
    /\ UNCHANGED <<activation_codes, lock_dates, remote_locks, nreq, serving, calc,
                   dbInitError, prevCheck, prevUnlock>>

setRemoteLock(p) ==
    \/ setRemoteLock_SelectDevice(p)
    \/ setRemoteLock_UpdateRemoteLock(p)
    \/ setRemoteLock_UpdateDevice(p)

----------------------------------------------------------------------------
(* GET /api/check-lock *)

checkRemoteLock_SelectDevice(p) ==
    \E serial \in QuerySerials, err \in StoreErr :
        /\ Count(err)
        /\ Route(p)
        /\ LET r   == [NoReq EXCEPT !.op = "check-lock", !.serial_number = serial]
               ids == DeviceIdsBySerial(serial)
           IN  req' = Started(p,
                   IF serial = "" THEN Finish(r, StatusBadRequest)
                   ELSE IF err \/ ids = {} THEN Finish(r, StatusNotFound)
                   ELSE [r EXCEPT !.deviceID = FirstRow(ids),
                                  !.pc = "k_select_remote_lock"])
        /\ UNCHANGED <<store, serving, calc, lockWritten>>

\* a check-lock that creates the RemoteLock row it does not find
checkRemoteLock_SelectRemoteLock_Creates(p) ==
    /\ At(p, "check-lock", "k_select_remote_lock")
    /\ \E err \in StoreErr :
        /\ Count(err)
        /\ LET ids == RemoteLockIds(req[p].deviceID)
           IN  /\ remote_locks' =
                      IF ~ err /\ ids = {}
                      THEN Append(remote_locks, [device_id |-> req[p].deviceID,
                                                 is_locked |-> FALSE])
                      ELSE remote_locks
               /\ req' = [req EXCEPT ![p] =
                      IF err THEN Finish(@, StatusNotFound)
                      ELSE Finish([@ EXCEPT !.isLocked =
                                      IF ids = {} THEN FALSE
                                      ELSE remote_locks[FirstRow(ids)].is_locked],
                                  StatusOK)]
    /\ UNCHANGED <<devices, activation_codes, lock_dates, nreq, serving, calc,
                   dbInitError, lockWritten, prevCheck, prevUnlock>>

\* "Get remote lock status"
checkRemoteLock_SelectRemoteLock(p) ==
    /\ At(p, "check-lock", "k_select_remote_lock")
    /\ \E err \in StoreErr :
        /\ Count(err)
        /\ LET ids == RemoteLockIds(req[p].deviceID)
           IN  req' = [req EXCEPT ![p] =
                   IF err \/ ids = {} THEN Finish(@, StatusNotFound)
                   ELSE Finish([@ EXCEPT !.isLocked =
                                   remote_locks[FirstRow(ids)].is_locked],
                               StatusOK)]
    /\ UNCHANGED <<store, nreq, serving, calc,
                   dbInitError, lockWritten, prevCheck, prevUnlock>>

checkRemoteLock(p) ==
    \/ checkRemoteLock_SelectDevice(p)
    \/ checkRemoteLock_SelectRemoteLock(p)

----------------------------------------------------------------------------
(* POST /api/unlock *)

\* an unlock that answers success for a serial number it does not find
unlockDevice_SelectDevice_Lenient(p) ==
    \E serial \in Serials, err \in StoreErr :
        /\ Count(err)
        /\ Route(p)
        /\ LET r   == [NoReq EXCEPT !.op = "unlock", !.serial_number = serial]
               ids == DeviceIdsBySerial(serial)
           IN  req' = Started(p,
                   IF err \/ ids = {} THEN Finish(r, StatusOK)
                   ELSE [r EXCEPT !.deviceID = FirstRow(ids),
                                  !.pc = "u_update_device"])
        /\ UNCHANGED <<store, serving, calc, lockWritten>>

unlockDevice_SelectDevice(p) ==
    \E serial \in Serials, err \in StoreErr :
        /\ Count(err)
        /\ Route(p)
        /\ LET r   == [NoReq EXCEPT !.op = "unlock", !.serial_number = serial]
               ids == DeviceIdsBySerial(serial)
           IN  req' = Started(p,
                   IF err \/ ids = {} THEN Finish(r, StatusNotFound)
                   ELSE [r EXCEPT !.deviceID = FirstRow(ids),
                                  !.pc = "u_update_device"])
        /\ UNCHANGED <<store, serving, calc, lockWritten>>

\* UPDATE devices SET is_locked = false, is_active = false WHERE id = $1
UnlockRow(deviceID) ==
    [devices EXCEPT ![deviceID].is_locked = FALSE,
                    ![deviceID].is_active = FALSE]

\* an unlock that also hands the device's activation codes out again
unlockDevice_UpdateDevice_ResetCodes(p) ==
    /\ At(p, "unlock", "u_update_device")
    /\ \E err \in StoreErr :
        /\ Count(err)
        /\ IF err
           THEN /\ req' = [req EXCEPT ![p] = Finish(@, StatusInternalServerError)]
                /\ UNCHANGED <<devices, activation_codes>>
           ELSE /\ devices' = UnlockRow(req[p].deviceID)
                /\ activation_codes' =
                       [id \in DOMAIN activation_codes |->
                           IF activation_codes[id].device_id = req[p].deviceID
                           THEN [activation_codes[id] EXCEPT !.is_used = FALSE,
                                                             !.used_at = "NULL"]
                           ELSE activation_codes[id]]
                /\ req' = [req EXCEPT ![p].pc = "u_update_remote_lock"]
    /\ UNCHANGED <<lock_dates, remote_locks, nreq, serving, calc,
                   dbInitError, lockWritten, prevCheck, prevUnlock>>

\* "Unlock device"
unlockDevice_UpdateDevice(p) ==
    /\ At(p, "unlock", "u_update_device")
    /\ \E err \in StoreErr :
        /\ Count(err)
        /\ IF err
           THEN /\ req' = [req EXCEPT ![p] = Finish(@, StatusInternalServerError)]
                /\ UNCHANGED devices
           ELSE /\ devices' = UnlockRow(req[p].deviceID)
                /\ req' = [req EXCEPT ![p].pc = "u_update_remote_lock"]
    /\ UNCHANGED <<activation_codes, lock_dates, remote_locks, nreq, serving, calc,
                   dbInitError, lockWritten, prevCheck, prevUnlock>>

\* "Update remote lock": an error is only logged
unlockDevice_UpdateRemoteLock(p) ==
    /\ At(p, "unlock", "u_update_remote_lock")
    /\ \E err \in StoreErr :
        /\ Count(err)
        /\ remote_locks' = IF err THEN remote_locks
                           ELSE UpdateRemoteLock(req[p].deviceID, FALSE)
    /\ req' = [req EXCEPT ![p] = Finish(@, StatusOK)]
    /\ lockWritten' = [lockWritten EXCEPT ![req[p].serial_number] = {FALSE}]
    /\ UNCHANGED <<devices, activation_codes, lock_dates, nreq, serving, calc,
                   dbInitError, prevCheck, prevUnlock>>

unlockDevice(p) ==
    \/ unlockDevice_SelectDevice(p)
    \/ unlockDevice_UpdateDevice(p)
    \/ unlockDevice_UpdateRemoteLock(p)

----------------------------------------------------------------------------
(* GET /api/health *)

\* /api/health of the serverless Handler: reached after initDB returned nil
healthCheck(p) ==
    /\ Route(p)
    /\ req' = Started(p, Finish([NoReq EXCEPT !.op = "health"], StatusOK))
    /\ UNCHANGED <<store, nfail, serving, calc, lockWritten>>

\* /api/health of the stand-alone server: main connected before it listens
healthCheckMain(p) ==
    /\ Accept(p)
    /\ req' = Started(p, Finish([NoReq EXCEPT !.op = "health_main"], StatusOK))
    /\ UNCHANGED <<store, nfail, serving, calc, dbInitError, lockWritten>>

----------------------------------------------------------------------------
(* The serverless Handler when the database connection cannot be opened *)

\* paths the router of the Handler knows
Routes ==
    {"health", "register", "activate", "check", "remote-lock", "check-lock",
     "unlock"}

\* initDB returns an error (no connection string, sql.Open or Ping failed, on
\* the first request or recorded by it): the Handler answers 500 before it
\* looks at the path
Handler_InitDBFailed(p) ==
    \E route \in Routes :
        /\ dbInitError \in {"pending", "error"}
        /\ dbInitError' = "error"
        /\ Accept(p)
        /\ req' = Started(p, Finish([NoReq EXCEPT !.op = route],
                                    StatusInternalServerError))
        /\ UNCHANGED <<store, nfail, serving, calc, lockWritten>>

----------------------------------------------------------------------------
(* calculateLockDates on its own: the inputs of one call, then its result  *)
(* and the lock_date strings the response formats from it.                 *)

NoCalc ==
    [phase |-> "none", emi_start_date |-> <<>>, term_duration |-> 0,
     emi_term |-> 0, lockDates |-> <<>>, formatted |-> <<>>]

\* the store-free part of registerDevice: validation, time.Parse,
\* calculateLockDates and the Format of every lock date
calculateLockDates_Call ==
    /\ calc.phase = "input"
    /\ LET lockDates == calculateLockDates(Parse(calc.emi_start_date),
                                           calc.term_duration, calc.emi_term)
       IN  calc' =
            IF ~ ValidTermDuration(calc.term_duration)
            THEN [calc EXCEPT !.phase = "bad_term_duration"]
            ELSE IF ParseFails(calc.emi_start_date)
            THEN [calc EXCEPT !.phase = "bad_date"]
            ELSE [calc EXCEPT !.phase = "done", !.lockDates = lockDates,
                        !.formatted = [k \in DOMAIN lockDates |->
                                          Format(lockDates[k])]]
    /\ UNCHANGED <<store, req, nreq, nfail, serving, dbInitError, lockWritten,
                 prevCheck, prevUnlock>>

----------------------------------------------------------------------------
(* Specifications *)

EmptyStore ==
    /\ devices = <<>>
    /\ activation_codes = <<>>
    /\ lock_dates = <<>>
    /\ remote_locks = <<>>

\* the tables after schema.sql ran, no request yet
Start ==
    /\ EmptyStore
    /\ req = [p \in Procs |-> NoReq]
    /\ nreq = 0
    /\ nfail = 0
    /\ dbInitError = "pending"
    /\ lockWritten = [serial \in Serials |-> {}]
    /\ prevCheck = NoCheck
    /\ prevUnlock = ""

Handle(p) ==
    \/ registerDevice(p)
    \/ activateDevice(p)
    \/ checkActivation(p)
    \/ checkActivationMain(p)
    \/ setRemoteLock(p)
    \/ checkRemoteLock(p)
    \/ unlockDevice(p)
    \/ healthCheck(p)
    \/ healthCheckMain(p)
    \/ Handler_InitDBFailed(p)

Next == \E p \in Procs : Handle(p)

\* requests are served concurrently, statement by statement
Init == Start /\ serving = "concurrent" /\ calc = NoCalc

Spec == Init /\ [][Next]_vars

\* requests are served one after the other
SeqInit == Start /\ serving = "sequential" /\ calc = NoCalc

SeqSpec == SeqInit /\ [][Next]_vars

\* one call of the store-free part of registerDevice, for every input
CalcInit ==
    /\ Start
    /\ serving = "none"
    /\ \E start \in CalcStartDates, dur \in CalcTermDurations,
          emiTerm \in (0 - 1) .. MaxCalcTerm :
            calc = [NoCalc EXCEPT !.phase = "input", !.emi_start_date = start,
                                  !.term_duration = dur, !.emi_term = emiTerm]

CalcNext == calculateLockDates_Call

CalcSpec == CalcInit /\ [][CalcNext]_vars

----------------------------------------------------------------------------
(* Properties *)

\* a request of slot p has answered
Answered(p, op) == req[p].op = op /\ req[p].pc = "done"

Succeeded(p, op) == Answered(p, op) /\ req[p].status = StatusOK

\* the device row of a serial number, if any
Registered(serial) == DeviceIdsBySerial(serial) # {}

\* C1: after a registration that answered success with emi_term = N the
\* device's ActivationCode rows carry exactly the term numbers 1..N, one row
\* each, there are as many LockDate rows, and the response lists the terms
\* 1..N in order (for N <= 0 the range 1..N is empty and there are no rows).
C1_RegistrationCreatesNTerms ==
    \A p \in Procs :
        Succeeded(p, "register") =>
            LET deviceID == req[p].deviceID
                N        == req[p].emi_term
                codes    == CodeIdsOf(deviceID)
                terms    == req[p].terms
            IN  /\ deviceID \in DOMAIN devices
                /\ devices[deviceID].serial_number = req[p].serial_number
                /\ devices[deviceID].emi_term = N
                /\ {activation_codes[id].term_number : id \in codes} = 1..N
                /\ Cardinality(codes) = Cardinality(1..N)
                /\ Cardinality(LockDateIdsOf(deviceID)) = Cardinality(1..N)
                /\ Len(terms) = Cardinality(1..N)
                /\ \A k \in 1..Len(terms) : terms[k].term = k

\* a registration with two terms has answered success and its rows are stored
C1_Witness ==
    \E p \in Procs :
        /\ Succeeded(p, "register")
        /\ req[p].emi_term = 2
        /\ Cardinality(CodeIdsOf(req[p].deviceID)) = 2
        /\ Cardinality(LockDateIdsOf(req[p].deviceID)) = 2

\* days of the years 2000 .. y-1, counted year by year
RECURSIVE DaysBeforeYear(_)
DaysBeforeYear(y) ==
    IF y <= 2000 THEN 0
    ELSE DaysBeforeYear(y - 1) + (IF IsLeap(y - 1) THEN 366 ELSE 365)

\* days of the months 1 .. m-1 of year y, counted month by month
RECURSIVE DaysBeforeMonth(_, _)
DaysBeforeMonth(y, m) ==
    IF m <= 1 THEN 0 ELSE DaysBeforeMonth(y, m - 1) + DaysIn(y, m - 1)

\* the calendar's own count of days from 1999-12-31 to a civil date
DayCount(c) == DaysBeforeYear(c[1]) + DaysBeforeMonth(c[1], c[2]) + c[3]

IsCivilDate(c) == c[2] \in 1..12 /\ c[3] \in 1..DaysIn(c[1], c[2])

\* C2: for start date S, term_duration d in {7, 15, 30} and emi_term N the
\* lock date of term k (1 <= k <= N) is the calendar date k*d days after S, so
\* consecutive lock dates differ by d days and increase with the term number;
\* 2024-01-01, 15, 3 gives 2024-01-16, 2024-01-31, 2024-02-15.
C2_LockDatesAreCumulative ==
    calc.phase = "done" =>
        LET S == calc.emi_start_date
            d == calc.term_duration
            N == calc.emi_term
            dates == calc.formatted
        IN  /\ d \in {7, 15, 30}
            /\ Len(dates) = Cardinality(1..N)
            /\ Len(calc.lockDates) = Len(dates)
            /\ \A k \in 1..N :
                /\ IsCivilDate(dates[k])
                /\ DayCount(dates[k]) = DayCount(S) + k * d
            /\ \A k \in 1..(N - 1) :
                /\ DayCount(dates[k + 1]) - DayCount(dates[k]) = d
                /\ calc.lockDates[k] < calc.lockDates[k + 1]
            /\ (S = <<2024, 1, 1>> /\ d = 15 /\ N = 3) =>
                dates = << <<2024, 1, 16>>, <<2024, 1, 31>>, <<2024, 2, 15>> >>

\* the example of the specification has been computed
C2_Witness ==
    /\ calc.phase = "done"
    /\ calc.emi_start_date = <<2024, 1, 1>>
    /\ calc.term_duration = 15
    /\ calc.emi_term = 3
    /\ Len(calc.formatted) = 3

\* a device row with all the rows of its registration
Complete(deviceID) ==
    LET N == devices[deviceID].emi_term
    IN  /\ {activation_codes[id].term_number : id \in CodeIdsOf(deviceID)} = 1..N
        /\ Cardinality(CodeIdsOf(deviceID)) = Cardinality(1..N)
        /\ Cardinality(LockDateIdsOf(deviceID)) = Cardinality(1..N)
        /\ Cardinality(RemoteLockIds(deviceID)) = 1

\* C3: registration is all-or-nothing: with no request in flight, a serial
\* number has its Device row together with all N ActivationCode rows, all N
\* LockDate rows and its RemoteLock row, or it has none of these rows.
C3_RegistrationAllOrNothing ==
    NoneInFlight => \A deviceID \in DOMAIN devices : Complete(deviceID)

\* C4: of two activate requests for the same not-yet-used code that
\* interleave at most one answers success (stated for runs without any
\* store failure).
C4_AtMostOneActivationSucceeds ==
    nfail = 0 =>
        \A p, q \in Procs :
            (/\ p # q
             /\ Succeeded(p, "activate")
             /\ Succeeded(q, "activate"))
            => req[p].activation_code # req[q].activation_code

\* C5: for sequential requests, an activate that answered success has marked
\* its code used and has set the owning device's is_active to true.
C5_SuccessfulActivateActivates ==
    \A p \in Procs :
        Succeeded(p, "activate") =>
            /\ \E id \in DOMAIN activation_codes :
                /\ activation_codes[id].code = req[p].activation_code
                /\ activation_codes[id].is_used
                /\ activation_codes[id].device_id = req[p].deviceID
            /\ devices[req[p].deviceID].is_active

\* C6: under every interleaving of the requests an ActivationCode row stays
\* in its table, never goes from used back to unused, and keeps its code,
\* its device and its term number.
C6_UsedIsOneWay ==
    [][\A id \in DOMAIN activation_codes :
          /\ id \in DOMAIN activation_codes'
          /\ activation_codes'[id].code = activation_codes[id].code
          /\ activation_codes'[id].device_id = activation_codes[id].device_id
          /\ activation_codes'[id].term_number = activation_codes[id].term_number
          /\ activation_codes[id].is_used => activation_codes'[id].is_used]_vars

\* an unlock has answered success for a device one of whose codes is used
C6_Witness ==
    \E p \in Procs :
        /\ Succeeded(p, "unlock")
        /\ \E id \in CodeIdsOf(req[p].deviceID) : activation_codes[id].is_used

\* C7: for sequential requests, a check of a registered device is never
\* answered Forbidden, and when it answers success the device is active and
\* the response carries a term for every activation code of the device.
C7_CheckAutoActivates ==
    \A p \in Procs :
        (/\ req[p].pc = "done"
         /\ req[p].op \in {"check", "check_main"}
         /\ Registered(req[p].serial_number))
        => /\ req[p].status # StatusForbidden
           /\ req[p].status = StatusOK =>
                /\ devices[req[p].deviceID].is_active
                /\ Complete(req[p].deviceID) =>
                       Len(req[p].terms) = devices[req[p].deviceID].emi_term

\* C8: when no remote-lock set and no unlock is in flight, Device.is_locked
\* equals the is_locked of the device's RemoteLock row (stated for runs
\* without any store failure).
C8_LockCopiesInSync ==
    (/\ nfail = 0
     /\ \A p \in Procs :
            InFlight(p) => req[p].op \notin {"remote-lock", "unlock"})
    => \A id \in DOMAIN remote_locks :
           devices[remote_locks[id].device_id].is_locked
               = remote_locks[id].is_locked

\* C9: a registration that answered success has created the RemoteLock row:
\* its device has exactly one.
C9_RegistrationCreatesRemoteLock ==
    \A p \in Procs :
        Succeeded(p, "register") =>
            Cardinality(RemoteLockIds(req[p].deviceID)) = 1

\* C10: after an unlock that answered success, the device is neither active
\* nor locked and its RemoteLock row is not locked.
C10_UnlockClearsAllFlags ==
    \A p \in Procs :
        Succeeded(p, "unlock") =>
            /\ devices[req[p].deviceID].is_active = FALSE
            /\ devices[req[p].deviceID].is_locked = FALSE
            /\ \A id \in RemoteLockIds(req[p].deviceID) :
                   remote_locks[id].is_locked = FALSE

\* C11: for sequential requests, a check-lock that answers success returns
\* the value of the most recent successful write of the device's lock state:
\* false from the registration, b from a remote-lock set of b, false from an
\* unlock.
C11_CheckLockReturnsLastWrite ==
    \A p \in Procs :
        Succeeded(p, "check-lock") =>
            \A written \in lockWritten[req[p].serial_number] :
                req[p].isLocked = written

\* slot p took the step
Acted(p) == req'[p] # req[p] /\ req'[p].pc # "idle"

\* C12: for sequential requests, every step of a well-formed registration
\* of a serial number that already has a Device row leaves the four tables
\* as they are, the request never answers success, and it answers Conflict
\* at once when its lookup statement did not fail.
C12_DuplicateRegistrationConflicts ==
    [][\A p \in Procs :
          (/\ Acted(p)
           /\ req'[p].op = "register"
           /\ req'[p].deviceID = 0
           /\ req'[p].term_duration \in {7, 15, 30}
           /\ IsCivilDate(req'[p].emi_start_date)
           /\ Registered(req'[p].serial_number))
          => /\ store' = store
             /\ req'[p].pc = "done" => req'[p].status # StatusOK
             /\ (~ InFlight(p) /\ nfail' = nfail)
                    => /\ req'[p].pc = "done"
                       /\ req'[p].status = StatusConflict]_vars

\* a registration of a stored serial number has answered Conflict
C12_Witness ==
    \E p \in Procs :
        /\ Answered(p, "register")
        /\ req[p].status = StatusConflict
        /\ Registered(req[p].serial_number)

\* C13: in every reachable state, under any interleaving of the requests,
\* no two Device rows carry the same serial number.
C13_SerialNumberUnique ==
    \A id, other \in DOMAIN devices :
        devices[id].serial_number = devices[other].serial_number => id = other

\* a registration lost the race for its serial number: its lookup found no
\* row, no statement failed, and its INSERT INTO devices was rejected
C13_Witness ==
    \E p \in Procs :
        /\ Answered(p, "register")
        /\ req[p].status = StatusInternalServerError
        /\ req[p].deviceID = 0
        /\ nfail = 0
        /\ Cardinality(DeviceIdsBySerial(req[p].serial_number)) = 1

\* C14: in every reachable state no two ActivationCode rows carry the same
\* code, whatever devices they belong to, and no two rows carry the same
\* (device, term number) pair, whatever values the code generator returns.
C14_ActivationCodesUnique ==
    \A id, other \in DOMAIN activation_codes :
        /\ activation_codes[id].code = activation_codes[other].code => id = other
        /\ (/\ activation_codes[id].device_id = activation_codes[other].device_id
            /\ activation_codes[id].term_number
                   = activation_codes[other].term_number)
           => id = other

\* the generator returned a code that is stored already: no statement
\* failed and an INSERT INTO activation_codes of a registration was rejected
C14_Witness ==
    \E p \in Procs :
        /\ Answered(p, "register")
        /\ req[p].status = StatusInternalServerError
        /\ req[p].deviceID # 0
        /\ nfail = 0
        /\ activation_codes # <<>>

\* C15: a registration whose term_duration is not 7, 15 or 30 that reaches
\* registerDevice is answered 400 at once and writes no table, and every
\* stored Device has term_duration 7, 15 or 30.
C15_TermDurationValidated ==
    [][/\ \A p \in Procs :
            (/\ Acted(p)
             /\ req'[p].op = "register"
             /\ dbInitError' = "nil"
             /\ req'[p].term_duration \notin {7, 15, 30})
            => /\ req'[p].pc = "done"
               /\ req'[p].status = StatusBadRequest
               /\ store' = store
       /\ \A id \in DOMAIN devices' :
            devices'[id].term_duration \in {7, 15, 30}]_vars

\* a registration with term_duration 10 has been answered 400 while devices
\* are stored
C15_Witness ==
    \E p \in Procs :
        /\ Answered(p, "register")
        /\ req[p].term_duration = 10
        /\ req[p].status = StatusBadRequest
        /\ devices # <<>>

\* the terms of a device as its Device row and its ActivationCode rows
\* define them: term k, the date k terms after the start date, the code of
\* the row with term number k
TermsOf(deviceID) ==
    LET device == devices[deviceID]
    IN  [k \in 1..device.emi_term |->
            [term |-> k,
             lock_date |-> Format(device.emi_start_date + k * device.term_duration),
             activation_code |->
                 activation_codes[CHOOSE id \in CodeIdsOf(deviceID) :
                     activation_codes[id].term_number = k].code]]

\* C16: for sequential requests and a fully registered device, a successful
\* activate or check returns exactly the tuples (k, lock date of term k,
\* activation code of term k) for k = 1..N in ascending term order, and
\* these are the tuples the registration response returned.
C16_TermsMatchRegistration ==
    \A p \in Procs :
        (/\ req[p].op \in {"register", "activate", "check"}
         /\ req[p].pc = "done"
         /\ req[p].status = StatusOK
         /\ Complete(req[p].deviceID))
        => req[p].terms = TermsOf(req[p].deviceID)

\* C17: for sequential requests, a check that directly follows a successful
\* check of the same serial number changes no table in any of its steps,
\* does not fail at its lookup unless that statement failed, and when it
\* answers success its terms are those of the first response.
C17_CheckIdempotent ==
    [][\A p \in Procs :
          (/\ Acted(p)
           /\ req'[p].op = "check"
           /\ prevCheck'.op = "check"
           /\ prevCheck'.status = StatusOK
           /\ prevCheck'.serial_number = req'[p].serial_number)
          => /\ store' = store
             /\ (~ InFlight(p) /\ nfail' = nfail) => req'[p].pc # "done"
             /\ (req'[p].pc = "done" /\ req'[p].status = StatusOK)
                    => req'[p].terms = prevCheck'.terms]_vars

\* C18: the step in which a store statement of a request fails ends that
\* request, and it ends it as a failure: no request goes on, or answers
\* success, after one of its statements failed.
C18_StoreErrorsSurface ==
    [][\A p \in Procs :
          (Acted(p) /\ nfail' # nfail)
          => /\ req'[p].pc = "done"
             /\ req'[p].status \in {StatusBadRequest, StatusNotFound,
                                    StatusInternalServerError}]_vars

\* C19: a check, remote-lock set, check-lock or unlock for a serial number
\* that has no Device row is answered NotFound in its first step and
\* leaves the four tables unchanged.
C19_UnknownSerialNotFound ==
    [][\A p \in Procs :
          (/\ Acted(p)
           /\ ~ InFlight(p)
           /\ req'[p].op \in {"check", "check_main", "remote-lock",
                              "check-lock", "unlock"}
           /\ req'[p].serial_number \in Serials
           /\ ~ Registered(req'[p].serial_number))
          => /\ req'[p].pc = "done"
             /\ req'[p].status = StatusNotFound
             /\ store' = store]_vars

\* one of the four operations has been answered NotFound for a serial
\* number without a Device row while another device is stored
C19_Witness ==
    /\ devices # <<>>
    /\ \E p \in Procs :
        /\ req[p].op \in {"check", "check_main", "remote-lock", "check-lock",
                          "unlock"}
        /\ req[p].pc = "done"
        /\ req[p].status = StatusNotFound
        /\ req[p].serial_number \in Serials
        /\ ~ Registered(req[p].serial_number)

\* C20: every health request is answered {status: ok}, also when the store
\* is unavailable or the connection was never established.
C20_HealthAlwaysOk ==
    \A p \in Procs :
        (req[p].pc = "done" /\ req[p].op \in {"health", "health_main"})
        => req[p].status = StatusOK

\* C21: of two well-formed registrations of one serial number that
\* overlapped and did not both find it registered, one answers success,
\* the other answers Conflict and has inserted nothing (stated for runs
\* without any store failure).
C21_ConcurrentRegistrationOneWins ==
    nfail = 0 =>
        \A p, q \in Procs :
            (/\ p # q
             /\ Answered(p, "register")
             /\ Answered(q, "register")
             /\ req[p].serial_number = req[q].serial_number
             /\ req[p].term_duration \in {7, 15, 30}
             /\ req[q].term_duration \in {7, 15, 30}
             /\ IsCivilDate(req[p].emi_start_date)
             /\ IsCivilDate(req[q].emi_start_date)
             /\ ~ (/\ req[p].status = StatusConflict
                   /\ req[q].status = StatusConflict))
            => \E winner, loser \in {p, q} :
                /\ winner # loser
                /\ req[winner].status = StatusOK
                /\ req[loser].status = StatusConflict
                /\ req[loser].deviceID = 0

\* C22: the step in which an activate request leaves its second update
\* behind has the owning device active, and a failed first update leaves
\* the code unused: no request consumes a code without activating the
\* device.
C22_ActivationAtomic ==
    [][\A p \in Procs :
          /\ (/\ req[p].op = "activate"
              /\ req[p].pc = "a_activate"
              /\ req'[p].pc # "a_activate")
             => devices'[req[p].deviceID].is_active
          /\ (/\ req[p].op = "activate"
              /\ req[p].pc = "a_mark_used"
              /\ req'[p].pc = "done")
             => activation_codes' = activation_codes]_vars

\* C23: for sequential requests, after a remote-lock set of b that answered
\* success the device has a RemoteLock row and its is_locked is b, also
\* when the device had no RemoteLock row before.
C23_RemoteLockUpserts ==
    \A p \in Procs :
        Succeeded(p, "remote-lock") =>
            /\ RemoteLockIds(req[p].deviceID) # {}
            /\ \A id \in RemoteLockIds(req[p].deviceID) :
                   remote_locks[id].is_locked = req[p].is_locked

\* C24: in every behaviour, a step in which a Device's is_active goes from
\* true to false is the UPDATE devices step of an unlock of that device.
C24_OnlyUnlockDeactivates ==
    [][\A id \in DOMAIN devices :
          (devices[id].is_active /\ ~ devices'[id].is_active)
          => \E p \in Procs :
                /\ req[p].op = "unlock"
                /\ req[p].pc = "u_update_device"
                /\ req[p].deviceID = id
                /\ req'[p] # req[p]]_vars

\* an unlock has answered success for a device that a check had activated
C24_Witness ==
    \E p \in Procs :
        /\ Succeeded(p, "unlock")
        /\ prevCheck.op = "check"
        /\ prevCheck.status = StatusOK
        /\ prevCheck.serial_number = req[p].serial_number
        /\ ~ devices[req[p].deviceID].is_active

\* C25: for sequential requests, in the request that follows a successful
\* unlock the device is still registered and inactive when the request
\* arrives; a check of it, or an activate with one of its codes, that
\* answers success has set is_active to true; an activate with one of its
\* used codes is answered 400 and changes nothing.
C25_ReactivationAfterUnlock ==
    [][\A p \in Procs :
          (Acted(p) /\ prevUnlock' \in Serials)
          => LET ids == DeviceIdsBySerial(prevUnlock')
             IN  /\ ids # {}
                 /\ ~ InFlight(p) => \A id \in ids : ~ devices[id].is_active
                 /\ (/\ req'[p].op = "check"
                     /\ req'[p].serial_number = prevUnlock'
                     /\ req'[p].pc = "done"
                     /\ req'[p].status = StatusOK)
                    => \A id \in ids : devices'[id].is_active
                 /\ (/\ req'[p].op = "activate"
                     /\ req'[p].deviceID \in ids
                     /\ req'[p].pc = "done"
                     /\ req'[p].status = StatusOK)
                    => \A id \in ids : devices'[id].is_active
                 /\ (/\ ~ InFlight(p)
                     /\ req'[p].op = "activate"
                     /\ \E code \in DOMAIN activation_codes :
                         /\ activation_codes[code].code = req'[p].activation_code
                         /\ activation_codes[code].device_id \in ids
                         /\ activation_codes[code].is_used)
                    => /\ req'[p].pc = "done"
                       /\ req'[p].status = StatusBadRequest
                       /\ store' = store]_vars

\* the Device rows differ from one state to the next at most in the given
\* field of the given device
DevicesChangeOnly(deviceID, field) ==
    /\ DOMAIN devices' = DOMAIN devices
    /\ \A id \in DOMAIN devices :
        /\ id # deviceID => devices'[id] = devices[id]
        /\ \A f \in DOMAIN devices[id] \ {field} : devices'[id][f] = devices[id][f]

\* C26: a step of a remote-lock set changes at most Device.is_locked and
\* RemoteLock.is_locked of the addressed device; a step of an activate
\* changes at most is_used and used_at of the code it consumes and
\* is_active of the owning device; a step of a check changes at most
\* is_active of the addressed device; no such step changes a LockDate row
\* or a row of another device.
C26_LockAndActivationIndependent ==
    [][\A p \in Procs :
          /\ (Acted(p) /\ req'[p].op = "remote-lock")
             => /\ activation_codes' = activation_codes
                /\ lock_dates' = lock_dates
                /\ DevicesChangeOnly(req'[p].deviceID, "is_locked")
                /\ DOMAIN remote_locks' = DOMAIN remote_locks
                /\ \A id \in DOMAIN remote_locks :
                    /\ remote_locks'[id].device_id = remote_locks[id].device_id
                    /\ remote_locks[id].device_id # req'[p].deviceID
                           => remote_locks'[id] = remote_locks[id]
          /\ (Acted(p) /\ req'[p].op = "activate")
             => /\ lock_dates' = lock_dates
                /\ remote_locks' = remote_locks
                /\ DevicesChangeOnly(req'[p].deviceID, "is_active")
                /\ DOMAIN activation_codes' = DOMAIN activation_codes
                /\ \A id \in DOMAIN activation_codes :
                    /\ id # req[p].activationCodeID
                           => activation_codes'[id] = activation_codes[id]
                    /\ \A f \in {"code", "device_id", "term_number"} :
                           activation_codes'[id][f] = activation_codes[id][f]
          /\ (Acted(p) /\ req'[p].op \in {"check", "check_main"})
             => /\ activation_codes' = activation_codes
                /\ lock_dates' = lock_dates
                /\ remote_locks' = remote_locks
                /\ DevicesChangeOnly(req'[p].deviceID, "is_active")]_vars

\* a remote-lock set of true has answered success on an active device, and
\* the device is locked and still active
C26_Witness ==
    \E p \in Procs :
        /\ Succeeded(p, "remote-lock")
        /\ req[p].is_locked
        /\ devices[req[p].deviceID].is_active
        /\ devices[req[p].deviceID].is_locked

\* C27: no step of a check-lock request changes a row of any table.
C27_CheckLockReadOnly ==
    [][\A p \in Procs :
          (Acted(p) /\ req'[p].op = "check-lock") => store' = store]_vars

\* a check-lock has answered that the device is locked
C27_Witness ==
    \E p \in Procs : Succeeded(p, "check-lock") /\ req[p].isLocked

\* C28: every stored Device has emi_term >= 1 and at least one
\* ActivationCode row and one LockDate row once its registration has
\* answered: a registration with emi_term <= 0 creates no Device row.
C28_EmiTermAtLeastOne ==
    \A id \in DOMAIN devices :
        /\ devices[id].emi_term >= 1
        /\ (\A p \in Procs : ~ (InFlight(p) /\ req[p].deviceID = id))
           => /\ CodeIdsOf(id) # {}
              /\ LockDateIdsOf(id) # {}

\* the registration that inserted Device row id is still running
Registering(id) ==
    \E p \in Procs :
        req[p].op = "register" /\ InFlight(p) /\ req[p].deviceID = id

\* C29: once a Device row exists for a serial number, a well-formed
\* registration of it that arrives later is answered Conflict at once when
\* its lookup did not fail, no step of a registration that did not insert
\* the row changes any table, and once the registration that inserted the
\* row has answered, no step adds an ActivationCode, LockDate or RemoteLock
\* row of that device.
C29_PartialRegistrationPermanent ==
    [][/\ \A p \in Procs :
            (/\ Acted(p)
             /\ req'[p].op = "register"
             /\ req'[p].deviceID = 0
             /\ Registered(req'[p].serial_number))
            => /\ store' = store
               /\ req'[p].pc = "done" => req'[p].status # StatusOK
               /\ (/\ ~ InFlight(p)
                   /\ nfail' = nfail
                   /\ req'[p].term_duration \in {7, 15, 30}
                   /\ IsCivilDate(req'[p].emi_start_date))
                  => /\ req'[p].pc = "done"
                     /\ req'[p].status = StatusConflict
       /\ \A id \in DOMAIN devices :
            ~ Registering(id)
            => /\ {c \in DOMAIN activation_codes' :
                      activation_codes'[c].device_id = id} = CodeIdsOf(id)
               /\ {l \in DOMAIN lock_dates' :
                      lock_dates'[l].device_id = id} = LockDateIdsOf(id)
               /\ {r \in DOMAIN remote_locks' :
                      remote_locks'[r].device_id = id} = RemoteLockIds(id)]_vars

\* a registration has answered Conflict for a serial number whose Device
\* row, stored with emi_term >= 1 by a registration that has answered, is
\* incomplete
C29_Witness ==
    \E p \in Procs :
        /\ Answered(p, "register")
        /\ req[p].status = StatusConflict
        /\ \E id \in DeviceIdsBySerial(req[p].serial_number) :
            /\ devices[id].emi_term >= 1
            /\ ~ Registering(id)
            /\ ~ Complete(id)

====
